---- MODULE Spec2Model ----
(***************************************************************************)
(* A model of the conversion pipeline of web-printer:                      *)
(*   - skills/web-to-png/converter.js : parseArgs, main, toPng,            *)
(*     resolveViewport and renderPngWithPlaywright (the render driver);    *)
(*   - src/snap/command.ts : the snap command, which hands its options to  *)
(*     render() of ./renderer.ts.  renderer.ts is not among the sources;   *)
(*     its validation layer is modelled from the specification.            *)
(*                                                                         *)
(* One behaviour is one conversion invocation.  Init draws the request;    *)
(* every later action is one awaited operation of the code together with   *)
(* the synchronous code around it; navigation is split into its start and  *)
(* its settling, because the page issues requests in between.  A rejected  *)
(* await (an exception) is the action StepFails.                           *)
(*                                                                         *)
(* Encodings.  A JavaScript value that may be undefined/null is a          *)
(* sequence of length 0 (Undef) or 1 (Some(v)).  A string that the code    *)
(* inspects (URLs, allow-list prefixes, numeric option texts) is a tuple   *)
(* of one-character strings.  Clip rectangles are in half pixels, so that  *)
(* Math.ceil is not the identity.                                          *)
(***************************************************************************)
EXTENDS Integers, Sequences, FiniteSets, TLC

VARIABLES
    req,          \* the request as given to the entry point (never changes)
    pc,           \* position of the invocation in the code
    error,        \* kind of the exception that ended the invocation, or "none"
    snapOpts,     \* options object the snap command passes to render()
    viewport,     \* Undef, or Some([width, height]) once resolved
    htmlOrUrl,    \* first argument of renderPngWithPlaywright
    browser,      \* "none" | "open" | "closed"
    routeInstalled, \* page.route handler installed
    navAttempts,  \* calls of page.goto / page.setContent
    navigated,    \* "none" | "goto" | "setContent"
    navDone,      \* navigation has completed successfully
    dom,          \* [card, container]: elements present in the loaded page
    scriptRemovalRan, \* page.addScriptTag(remove scripts) has run
    captures,     \* sequence of screenshots taken: [mode, region]
    result,       \* return value of renderPngWithPlaywright: Undef or Some([mode])
    writes,       \* number of fs.writeFileSync / screenshot writes per output file
    htmlExists,   \* the intermediate HTML file exists on disk
    meta,         \* Undef, or Some(metadata sidecar contents)
    netlog,       \* requests issued by the page: [url, verdict]
    lifecycle     \* render-driver phases entered, in order

vars == <<req, pc, error, snapOpts, viewport, htmlOrUrl, browser, routeInstalled,
          navAttempts, navigated, navDone, dom, scriptRemovalRan, captures,
          result, writes, htmlExists, meta, netlog, lifecycle>>

-----------------------------------------------------------------------------
(* Bounds of the model *)

\* at most this many requests of the page are recorded in one invocation
MaxRequests == 2

-----------------------------------------------------------------------------
(* JavaScript values *)

Undef == <<>>
Some(v) == <<v>>
IsSome(o) == Len(o) = 1
Val(o) == o[1]

\* JavaScript truthiness of an optional number: undefined, null and 0 are falsy
TruthyNum(o) == IsSome(o) /\ Val(o) # 0

\* JavaScript truthiness of an optional string: undefined, null and "" are falsy
TruthyStr(o) == IsSome(o) /\ Len(Val(o)) > 0

\* String.prototype.startsWith
StartsWith(s, prefix) ==
    /\ Len(prefix) <= Len(s)
    /\ \A i \in 1..Len(prefix) : s[i] = prefix[i]

\* lower-casing of one character, as the /i flag of the scheme tests needs
LowerChar(c) ==
    CASE c = "H" -> "h"
      [] c = "T" -> "t"
      [] c = "P" -> "p"
      [] c = "S" -> "s"
      [] c = "F" -> "f"
      [] c = "I" -> "i"
      [] c = "L" -> "l"
      [] c = "E" -> "e"
      [] OTHER -> c

ToLower(s) == [i \in 1..Len(s) |-> LowerChar(s[i])]

StrHttp == <<"h", "t", "t", "p", ":", "/", "/">>
StrHttps == <<"h", "t", "t", "p", "s", ":", "/", "/">>
StrFile == <<"f", "i", "l", "e", ":", "/", "/">>

\* /^https?:\/\//i.test(s)
IsHttpUrl(s) == StartsWith(ToLower(s), StrHttp) \/ StartsWith(ToLower(s), StrHttps)

\* /^file:\/\//i.test(s)
IsFileUrl(s) == StartsWith(ToLower(s), StrFile)

Digits == <<"0", "1", "2", "3", "4", "5", "6", "7", "8", "9">>
IsDigit(c) == \E d \in 1..10 : Digits[d] = c
DigitVal(c) == (CHOOSE d \in 1..10 : Digits[d] = c) - 1

\* parseInt(s) for a text that begins with a digit: the leading digits, base 10
RECURSIVE ParseIntFrom(_, _, _)
ParseIntFrom(s, i, acc) ==
    IF i > Len(s) \/ ~IsDigit(s[i]) THEN acc
    ELSE ParseIntFrom(s, i + 1, acc * 10 + DigitVal(s[i]))

ParseInt(s) == ParseIntFrom(s, 1, 0)

\* Math.ceil of a length given in half pixels
CeilHalf(h) == (h + 1) \div 2

-----------------------------------------------------------------------------
(* The requests one invocation may be given *)

UrlA == StrHttps \o <<"a">>
UrlAB == StrHttps \o <<"a", "b">>
UrlB == StrHttp \o <<"b">>
UrlUpper == <<"H", "T", "T", "P", ":", "/", "/", "a">>
PlainText == <<"x">>

\* path.resolve(outputPath || "output.png") with .png replaced by .html
OutputHtml == <<"/", "o", ".", "h", "t", "m", "l">>

\* URLs the loaded page may request (scripts, images, fonts, ...)
PageUrls == {UrlA, UrlAB, UrlB}

DimValues == {Undef, Some(0), Some(99), Some(100), Some(5000), Some(5001)}

GoodDims == {<<Undef, Undef>>, <<Some(100), Some(5000)>>}

\* clip rectangles, in half pixels: 200x150, 200.5x149.5, -200x150, 0x150
ClipValues ==
    {Undef,
     Some([x |-> 20, y |-> 20, width |-> 400, height |-> 300]),
     Some([x |-> 0, y |-> 0, width |-> 401, height |-> 299]),
     Some([x |-> 0, y |-> 0, width |-> -400, height |-> 300]),
     Some([x |-> 0, y |-> 0, width |-> 0, height |-> 300])}

PresetNames == {Undef, Some("og"), Some("story"), Some("bogus"), Some("constructor")}

Whitelists ==
    {Undef,
     Some(<<>>),
     Some(<<UrlA>>),
     Some(<<StrFile, <<"h", "t", "t", "p", ":">>>>)}

\* texts of the snap command's --width / --height options
DimTexts ==
    {Undef,
     Some(<<"0">>),
     Some(<<"9", "9">>),
     Some(<<"1", "0", "0">>),
     Some(<<"5", "0", "0", "0">>),
     Some(<<"5", "0", "0", "1">>),
     Some(<<"8", "0", "0", "p", "x">>)}

BaseRequest ==
    [entry |-> "api",
     inputPath |-> Undef, content |-> Some(PlainText), url |-> Undef,
     output |-> Some(<<"o">>),
     preset |-> Some("og"), width |-> Undef, height |-> Undef, clip |-> Undef,
     fullPage |-> FALSE, keepHtml |-> TRUE, allowScripts |-> FALSE,
     networkWhitelist |-> Undef,
     input |-> PlainText, widthText |-> Undef, heightText |-> Undef, safe |-> FALSE]

Sources ==
    {[inputPath |-> Undef, content |-> Undef, url |-> Undef],
     [inputPath |-> Some(<<"i">>), content |-> Undef, url |-> Undef],
     [inputPath |-> Undef, content |-> Some(PlainText), url |-> Undef],
     [inputPath |-> Undef, content |-> Undef, url |-> Some(UrlA)],
     [inputPath |-> Undef, content |-> Undef, url |-> Some(UrlUpper)],
     [inputPath |-> Undef, content |-> Undef, url |-> Some(PlainText)],
     [inputPath |-> Some(<<"i">>), content |-> Undef, url |-> Some(UrlB)]}

\* requests that vary the dimensions, the clip and the preset
ViewportRequests ==
    {[BaseRequest EXCEPT !.entry = e, !.content = s.content, !.url = s.url,
                         !.width = w, !.height = h, !.clip = c, !.preset = p] :
        e \in {"cli", "api"},
        s \in {x \in Sources : x.inputPath = Undef /\ (x.content # Undef \/ x.url = Some(UrlA))},
        w \in DimValues, h \in DimValues, c \in ClipValues, p \in PresetNames}

\* requests that vary the source, the flags and the allow-list
PipelineRequests ==
    {[BaseRequest EXCEPT !.entry = e,
                         !.inputPath = s.inputPath, !.content = s.content, !.url = s.url,
                         !.width = d[1], !.height = d[2], !.clip = c,
                         !.fullPage = f, !.keepHtml = k, !.allowScripts = a,
                         !.networkWhitelist = n] :
        e \in {"cli", "api"}, s \in Sources, d \in GoodDims,
        c \in {x \in ClipValues : x = Undef \/ (Val(x).width = 400)},
        f \in BOOLEAN, k \in BOOLEAN, a \in BOOLEAN, n \in Whitelists}

\* command lines without --output
NoOutputRequests ==
    {[BaseRequest EXCEPT !.entry = "cli", !.output = Undef, !.width = w] :
        w \in {Undef, Some(100)}}

\* invocations of the snap command
SnapRequests ==
    {[BaseRequest EXCEPT !.entry = "snap", !.input = i, !.widthText = w,
                         !.heightText = h, !.safe = s] :
        i \in {PlainText, UrlA, UrlB, UrlUpper}, w \in DimTexts, h \in DimTexts,
        s \in BOOLEAN}

\* parseArgs leaves allowNet an array, whatever the command line (line 339)
CliShape(r) ==
    IF r.entry = "cli" /\ r.networkWhitelist = Undef
    THEN [r EXCEPT !.networkWhitelist = Some(<<>>)]
    ELSE r

Requests ==
    {CliShape(r) : r \in ViewportRequests \cup PipelineRequests \cup NoOutputRequests}
        \cup SnapRequests

-----------------------------------------------------------------------------
(* converter.js: pure functions *)

PRESETS ==
    [og |-> [width |-> Some(1200), height |-> Some(630)],
     square |-> [width |-> Some(1080), height |-> Some(1080)],
     story |-> [width |-> Some(1080), height |-> Some(1920)],
     portrait |-> [width |-> Some(1200), height |-> Some(1500)],
     banner |-> [width |-> Some(1600), height |-> Some(900)]]

\* property names every object literal inherits from Object.prototype: PRESETS[name]
\* is then a function object (truthy), whose .width and .height are undefined
ObjectPrototypeKeys == {"constructor", "toString", "valueOf", "hasOwnProperty"}

\* PRESETS[preset] || PRESETS.og
PresetLookup(name) ==
    IF name \in DOMAIN PRESETS THEN PRESETS[name]
    ELSE IF name \in ObjectPrototypeKeys THEN [width |-> Undef, height |-> Undef]
    ELSE PRESETS.og

\* options.preset || "og"
PresetOrDefault(preset) ==
    IF IsSome(preset) /\ Val(preset) # "" THEN Val(preset) ELSE "og"

resolveViewport(preset, width, height, clip) ==
    IF TruthyNum(width) /\ TruthyNum(height)
    THEN [width |-> width, height |-> height]
    ELSE IF IsSome(clip) /\ Val(clip).width # 0 /\ Val(clip).height # 0
    THEN [width |-> Some(CeilHalf(Val(clip).width)),
          height |-> Some(CeilHalf(Val(clip).height))]
    ELSE LET p == PresetLookup(preset) IN [width |-> p.width, height |-> p.height]

\* main: the arguments toPng is called with (for a direct call, the request itself)
ToPngParams(r) ==
    [inputPath |-> r.inputPath, content |-> r.content, url |-> r.url,
     outputPath |-> r.output, keepHtml |-> r.keepHtml, allowScripts |-> r.allowScripts,
     networkWhitelist |-> r.networkWhitelist,
     options |-> [preset |-> r.preset, width |-> r.width, height |-> r.height,
                  full_page |-> r.fullPage, clip |-> r.clip]]

-----------------------------------------------------------------------------
(* The state after the entry point has been given its request *)

Init ==
    /\ req \in Requests
    /\ pc = "start"
    /\ error = "none"
    /\ snapOpts = Undef
    /\ viewport = Undef
    /\ htmlOrUrl = Undef
    /\ browser = "none"
    /\ routeInstalled = FALSE
    /\ navAttempts = 0
    /\ navigated = "none"
    /\ navDone = FALSE
    /\ dom = Undef
    /\ scriptRemovalRan = FALSE
    /\ captures = <<>>
    /\ result = Undef
    /\ writes = [png |-> 0, html |-> 0, meta |-> 0]
    /\ htmlExists = FALSE
    /\ meta = Undef
    /\ netlog = <<>>
    /\ lifecycle = <<>>

driverVars == <<browser, routeInstalled, navAttempts, navigated, navDone, dom,
                scriptRemovalRan, captures, result, netlog>>
fileVars == <<writes, htmlExists, meta>>

\* an exception leaves the function: nothing of the code below the throw runs
Throw(kind) ==
    /\ pc' = "failed"
    /\ error' = kind
    /\ lifecycle' = Append(lifecycle, "Failed")

P == ToPngParams(req)

-----------------------------------------------------------------------------
(* converter.js: parseArgs and main *)

ParseArgs ==
    /\ pc = "start"
    /\ req.entry = "cli"
    /\ IF ~TruthyStr(req.output) THEN Throw("MissingOutput")
       ELSE IF TruthyNum(req.width) /\ ~TruthyNum(req.height)
       THEN Throw("IncompleteDimensionPair")
       ELSE IF ~TruthyNum(req.width) /\ TruthyNum(req.height)
       THEN Throw("IncompleteDimensionPair")
       ELSE pc' = "toPng" /\ UNCHANGED <<error, lifecycle>>
    /\ UNCHANGED <<req, snapOpts, viewport, htmlOrUrl, driverVars, fileVars>>

-----------------------------------------------------------------------------
(* converter.js: toPng, up to the call of renderPngWithPlaywright *)

\* number of times lines 240 and 271 write the intermediate HTML
HtmlWrites(keepHtml, isUrl) ==
    (IF keepHtml /\ ~isUrl THEN 1 ELSE 0) + (IF isUrl THEN 0 ELSE 1)

ToPngBegin ==
    /\ \/ pc = "start" /\ req.entry = "api"
       \/ pc = "toPng"
    /\ LET isUrl == TruthyStr(P.url) IN
       IF ~TruthyStr(P.inputPath) /\ ~TruthyStr(P.content) /\ ~isUrl
       THEN /\ Throw("MissingInput")
            /\ UNCHANGED <<viewport, htmlOrUrl, fileVars>>
       ELSE \E inputFound \in BOOLEAN, templateFound \in BOOLEAN :
            IF TruthyStr(P.inputPath) /\ ~inputFound
            THEN /\ Throw("FileNotFound")
                 /\ UNCHANGED <<viewport, htmlOrUrl, fileVars>>
            ELSE IF ~isUrl /\ ~templateFound
            THEN /\ Throw("TemplateNotFound")
                 /\ UNCHANGED <<viewport, htmlOrUrl, fileVars>>
            ELSE /\ writes' = [writes EXCEPT !.html = @ + HtmlWrites(P.keepHtml, isUrl)]
                 /\ htmlExists' = ~isUrl
                 /\ viewport' = Some(resolveViewport(PresetOrDefault(P.options.preset),
                                                     P.options.width, P.options.height,
                                                     P.options.clip))
                 /\ htmlOrUrl' = IF isUrl THEN P.url ELSE Some(StrFile \o OutputHtml)
                 /\ pc' = "import"
                 /\ UNCHANGED <<error, lifecycle, meta>>
    /\ UNCHANGED <<req, snapOpts, driverVars>>

-----------------------------------------------------------------------------
(* converter.js: renderPngWithPlaywright *)

\* await import("playwright"): when it fails the function returns null
ImportPlaywright ==
    /\ pc = "import"
    /\ \E available \in BOOLEAN :
         pc' = IF available THEN "launch" ELSE "finish"
    /\ UNCHANGED <<req, error, snapOpts, viewport, htmlOrUrl, driverVars, fileVars,
                   lifecycle>>

Launch ==
    /\ pc = "launch"
    /\ browser' = "open"
    /\ lifecycle' = Append(lifecycle, "Launching")
    /\ pc' = "newPage"
    /\ UNCHANGED <<req, error, snapOpts, viewport, htmlOrUrl, routeInstalled,
                   navAttempts, navigated, navDone, dom, scriptRemovalRan, captures,
                   result, netlog, fileVars>>

NewPage ==
    /\ pc = "newPage"
    /\ pc' = "route"
    /\ UNCHANGED <<req, error, snapOpts, viewport, htmlOrUrl, driverVars, fileVars,
                   lifecycle>>

\* Array.isArray(networkWhitelist) && networkWhitelist.length > 0
HasWhitelist(wl) == IsSome(wl) /\ Len(Val(wl)) > 0

InstallRoute ==
    /\ pc = "route"
    /\ routeInstalled' = HasWhitelist(P.networkWhitelist)
    /\ pc' = "navigate"
    /\ UNCHANGED <<req, error, snapOpts, viewport, htmlOrUrl, browser, navAttempts,
                   navigated, navDone, dom, scriptRemovalRan, captures, result, netlog,
                   fileVars, lifecycle>>

\* a faulty variant: every prefix has to match
RouteHandlerAll(wl, url) ==
    IF \A i \in 1..Len(wl) : StartsWith(url, wl[i]) THEN "continue" ELSE "abort"

\* the route handler: continue when some prefix matches, abort otherwise
RouteHandler(wl, url) ==
    IF \E i \in 1..Len(wl) : StartsWith(url, wl[i]) THEN "continue" ELSE "abort"

\* what becomes of a request of the page
Verdict(url) ==
    IF routeInstalled THEN RouteHandler(Val(P.networkWhitelist), url) ELSE "passthrough"

\* page.goto for http(s):// and file:// targets, page.setContent otherwise
NavMethod(target) ==
    IF IsHttpUrl(target) \/ IsFileUrl(target) THEN "goto" ELSE "setContent"

NavigateStart ==
    /\ pc = "navigate"
    /\ navAttempts' = navAttempts + 1
    /\ navigated' = NavMethod(Val(htmlOrUrl))
    /\ IF NavMethod(Val(htmlOrUrl)) = "goto"
       THEN /\ netlog' = Append(netlog, [url |-> Val(htmlOrUrl),
                                         verdict |-> Verdict(Val(htmlOrUrl))])
            /\ IF Verdict(Val(htmlOrUrl)) = "abort"
               THEN /\ pc' = "failed"
                    /\ error' = "NavigationFailed"
                    /\ lifecycle' = lifecycle \o <<"Navigating", "Failed">>
               ELSE /\ pc' = "navigating"
                    /\ lifecycle' = Append(lifecycle, "Navigating")
                    /\ UNCHANGED error
       ELSE /\ pc' = "navigating"
            /\ lifecycle' = Append(lifecycle, "Navigating")
            /\ UNCHANGED <<netlog, error>>
    /\ UNCHANGED <<req, snapOpts, viewport, htmlOrUrl, browser, routeInstalled, navDone,
                   dom, scriptRemovalRan, captures, result, fileVars>>

\* a faulty variant: navigate again after a timeout
AfterNavigationRetry(outcome) ==
    IF outcome = "ok" THEN "scripts" ELSE "navigate"

\* where the invocation goes when the navigation promise settles
AfterNavigation(outcome) ==
    IF outcome = "ok" THEN "scripts" ELSE "failed"

NavigateEnd ==
    /\ pc = "navigating"
    /\ \E outcome \in {"ok", "timeout"} :
         /\ pc' = AfterNavigation(outcome)
         /\ IF outcome = "ok"
            THEN /\ navDone' = TRUE
                 /\ \E card \in BOOLEAN, container \in BOOLEAN :
                      dom' = Some([card |-> card, container |-> container])
                 /\ lifecycle' = Append(lifecycle, "ContentReady")
                 /\ UNCHANGED error
            ELSE /\ IF pc' = "failed"
                    THEN error' = "NavigationTimeout" /\ lifecycle' = Append(lifecycle, "Failed")
                    ELSE UNCHANGED <<error, lifecycle>>
                 /\ UNCHANGED <<navDone, dom>>
    /\ UNCHANGED <<req, snapOpts, viewport, htmlOrUrl, browser, routeInstalled,
                   navAttempts, navigated, scriptRemovalRan, captures, result, netlog,
                   fileVars>>

\* the page asks for a subresource while it loads or after
PageRequest ==
    /\ pc \in {"navigating", "scripts", "fonts", "capture", "close"}
    /\ Len(netlog) < MaxRequests
    /\ \E u \in PageUrls :
         netlog' = Append(netlog, [url |-> u, verdict |-> Verdict(u)])
    /\ UNCHANGED <<req, pc, error, snapOpts, viewport, htmlOrUrl, browser,
                   routeInstalled, navAttempts, navigated, navDone, dom,
                   scriptRemovalRan, captures, result, fileVars, lifecycle>>

\* a faulty variant: pages loaded from a live URL are spared
RemovesScriptsUnlessUrl(allowScripts, target) == ~allowScripts /\ ~IsHttpUrl(target)

\* if (!allowScripts) page.addScriptTag(...)
RemovesScripts(allowScripts, target) == ~allowScripts

RemoveScripts ==
    /\ pc = "scripts"
    /\ scriptRemovalRan' = RemovesScripts(P.allowScripts, Val(htmlOrUrl))
    /\ pc' = "fonts"
    /\ UNCHANGED <<req, error, snapOpts, viewport, htmlOrUrl, browser, routeInstalled,
                   navAttempts, navigated, navDone, dom, captures, result, netlog,
                   fileVars, lifecycle>>

FontsReady ==
    /\ pc = "fonts"
    /\ pc' = "capture"
    /\ UNCHANGED <<req, error, snapOpts, viewport, htmlOrUrl, driverVars, fileVars,
                   lifecycle>>

\* a faulty variant: the full-page flag is asked before the clip
CaptureChoiceFullPageFirst(clip, fullPage, card, container) ==
    IF fullPage THEN [mode |-> "fullPage", region |-> <<"page">>]
    ELSE IF IsSome(clip) THEN [mode |-> "clip", region |-> <<"rect", Val(clip)>>]
    ELSE IF card THEN [mode |-> "card", region |-> <<"element", ".card">>]
    ELSE IF container THEN [mode |-> "container", region |-> <<"element", ".container">>]
    ELSE [mode |-> "fullPage", region |-> <<"page">>]

\* lines 163-185: which screenshot call is made, and the mode recorded
CaptureChoice(clip, fullPage, card, container) ==
    IF IsSome(clip) THEN [mode |-> "clip", region |-> <<"rect", Val(clip)>>]
    ELSE IF fullPage THEN [mode |-> "fullPage", region |-> <<"page">>]
    ELSE IF card THEN [mode |-> "card", region |-> <<"element", ".card">>]
    ELSE IF container THEN [mode |-> "container", region |-> <<"element", ".container">>]
    ELSE [mode |-> "fullPage", region |-> <<"page">>]

Capture ==
    /\ pc = "capture"
    /\ captures' = Append(captures, CaptureChoice(P.options.clip, P.options.full_page,
                                                  Val(dom).card, Val(dom).container))
    /\ writes' = [writes EXCEPT !.png = @ + 1]
    /\ lifecycle' = Append(lifecycle, "Capturing")
    /\ pc' = "close"
    /\ UNCHANGED <<req, error, snapOpts, viewport, htmlOrUrl, browser, routeInstalled,
                   navAttempts, navigated, navDone, dom, scriptRemovalRan, result,
                   netlog, htmlExists, meta>>

\* browser.version(); await browser.close(); return { version, mode }
Close ==
    /\ pc = "close"
    /\ browser' = "closed"
    /\ result' = Some([mode |-> captures[Len(captures)].mode])
    /\ lifecycle' = Append(lifecycle, "Closed")
    /\ pc' = "finish"
    /\ UNCHANGED <<req, error, snapOpts, viewport, htmlOrUrl, routeInstalled,
                   navAttempts, navigated, navDone, dom, scriptRemovalRan, captures,
                   netlog, fileVars>>

\* the awaited Playwright call at pc rejects; there is no try/finally around it
StepFails ==
    /\ \/ pc \in {"launch", "newPage", "fonts", "capture", "close"}
       \/ pc = "route" /\ HasWhitelist(P.networkWhitelist)
       \/ pc = "scripts" /\ RemovesScripts(P.allowScripts, Val(htmlOrUrl))
    /\ Throw("RenderError")
    /\ UNCHANGED <<req, snapOpts, viewport, htmlOrUrl, driverVars, fileVars>>

-----------------------------------------------------------------------------
(* converter.js: toPng, after renderPngWithPlaywright has returned *)

ToPngFinish ==
    /\ pc = "finish"
    /\ IF ~IsSome(result)
       THEN /\ Throw("RenderEngineUnavailable")
            /\ UNCHANGED fileVars
       ELSE /\ htmlExists' = IF ~P.keepHtml THEN FALSE ELSE htmlExists
            /\ meta' = Some([preset |-> PresetOrDefault(P.options.preset),
                             width |-> Val(viewport).width,
                             height |-> Val(viewport).height,
                             screenshotMode |-> Val(result).mode])
            /\ writes' = [writes EXCEPT !.meta = @ + 1]
            /\ pc' = "done"
            /\ UNCHANGED <<error, lifecycle>>
    /\ UNCHANGED <<req, snapOpts, viewport, htmlOrUrl, driverVars>>

-----------------------------------------------------------------------------
(* src/snap/command.ts: the snap command *)

\* the options the action callback would pass if it dropped the --safe flag
SnapOptionsSafeDropped(r) ==
    [input |-> r.input,
     preset |-> r.preset,
     width |-> IF TruthyStr(r.widthText) THEN Some(ParseInt(Val(r.widthText))) ELSE Undef,
     height |-> IF TruthyStr(r.heightText) THEN Some(ParseInt(Val(r.heightText))) ELSE Undef,
     safe |-> FALSE]

\* lines 15-23: the object given to render()
SnapOptions(r) ==
    [input |-> r.input,
     preset |-> r.preset,
     width |-> IF TruthyStr(r.widthText) THEN Some(ParseInt(Val(r.widthText))) ELSE Undef,
     height |-> IF TruthyStr(r.heightText) THEN Some(ParseInt(Val(r.heightText))) ELSE Undef,
     safe |-> r.safe]

SnapCommand ==
    /\ pc = "start"
    /\ req.entry = "snap"
    /\ snapOpts' = Some(SnapOptions(req))
    /\ pc' = "render"
    /\ UNCHANGED <<req, error, viewport, htmlOrUrl, driverVars, fileVars, lifecycle>>

-----------------------------------------------------------------------------
(* renderer.ts (not among the sources): render(), after sections 4.3-4.5 *)

\* bounds of an explicit width or height, in pixels
MinDim == 100
MaxDim == 5000

InRange(n) == MinDim <= n /\ n <= MaxDim

\* the validation render() performs before any browser work: "ok" or an error kind
RenderValidation(o) ==
    IF o.safe /\ IsHttpUrl(o.input) THEN "UnsafeInputRejected"
    ELSE IF IsSome(o.width) # IsSome(o.height) THEN "IncompleteDimensionPair"
    ELSE IF IsSome(o.width) /\ ~(InRange(Val(o.width)) /\ InRange(Val(o.height)))
    THEN "DimensionOutOfRange"
    ELSE "ok"

SnapRender ==
    /\ pc = "render"
    /\ IF RenderValidation(Val(snapOpts)) = "ok"
       THEN pc' = "snapDrive" /\ UNCHANGED <<error, lifecycle>>
       ELSE Throw(RenderValidation(Val(snapOpts)))
    /\ UNCHANGED <<req, snapOpts, viewport, htmlOrUrl, driverVars, fileVars>>

\* the render driver of render(): navigates, captures, and closes the browser on
\* every path
SnapDrive ==
    /\ pc = "snapDrive"
    /\ navAttempts' = navAttempts + 1
    /\ navigated' = IF IsHttpUrl(Val(snapOpts).input) THEN "goto" ELSE "setContent"
    /\ browser' = "closed"
    /\ \E ok \in BOOLEAN :
         IF ok THEN pc' = "done" /\ UNCHANGED <<error, lifecycle>>
         ELSE Throw("NavigationTimeout")
    /\ UNCHANGED <<req, snapOpts, viewport, htmlOrUrl, routeInstalled, navDone, dom,
                   scriptRemovalRan, captures, result, netlog, fileVars>>

-----------------------------------------------------------------------------

Next ==
    \/ ParseArgs
    \/ ToPngBegin
    \/ ImportPlaywright
    \/ Launch
    \/ NewPage
    \/ InstallRoute
    \/ NavigateStart
    \/ NavigateEnd
    \/ PageRequest
    \/ RemoveScripts
    \/ FontsReady
    \/ Capture
    \/ Close
    \/ StepFails
    \/ ToPngFinish
    \/ SnapCommand
    \/ SnapRender
    \/ SnapDrive

Spec == Init /\ [][Next]_vars

Terminal == pc \in {"done", "failed"}

-----------------------------------------------------------------------------
(* Properties *)

Range(f) == {f[i] : i \in DOMAIN f}

C2_BrowserClosedAtTerminal ==
    Terminal => browser # "open"

C4_ClaimedViewport ==
    IF TruthyNum(req.width) /\ TruthyNum(req.height)
    THEN [width |-> req.width, height |-> req.height]
    ELSE IF IsSome(req.clip) /\ Val(req.clip).width > 0 /\ Val(req.clip).height > 0
    THEN [width |-> Some(CeilHalf(Val(req.clip).width)),
          height |-> Some(CeilHalf(Val(req.clip).height))]
    ELSE IF IsSome(req.preset) /\ Val(req.preset) \in DOMAIN PRESETS
    THEN PRESETS[Val(req.preset)]
    ELSE PRESETS.og

\* C4: resolveViewport returns the explicit width and height when both are provided;
\* otherwise the ceiling of the clip's width and height when both are positive;
\* otherwise the named preset, any unknown name resolving to og (1200x630).  The
\* sidecar records this viewport.
C4_ViewportResolution ==
    /\ IsSome(viewport) => Val(viewport) = C4_ClaimedViewport
    /\ IsSome(meta) => (/\ Val(meta).width = C4_ClaimedViewport.width
                        /\ Val(meta).height = C4_ClaimedViewport.height)

\* the explicit dimensions of the request, as numbers
ExplicitWidth == IF req.entry = "snap" THEN SnapOptions(req).width ELSE req.width
ExplicitHeight == IF req.entry = "snap" THEN SnapOptions(req).height ELSE req.height

\* failures of the checks that come before the check of the dimension pair
EarlierErrors == {"MissingOutput", "UnsafeInputRejected"}

\* failures that may end a conversion before its dimensions are validated
OtherEarlyFailures ==
    EarlierErrors \cup {"MissingInput", "IncompleteDimensionPair", "FileNotFound",
                        "TemplateNotFound", "RenderEngineUnavailable"}

\* C5: with explicit width and height, a dimension outside [100, 5000] fails the
\* conversion with DimensionOutOfRange before the browser is launched; dimensions
\* inside the range (bounds included) pass validation and become the viewport.
\* ("Explicit" is read as "given and not 0", as resolveViewport reads it.)
C5_DimensionBounds ==
    (TruthyNum(ExplicitWidth) /\ TruthyNum(ExplicitHeight)) =>
        IF InRange(Val(ExplicitWidth)) /\ InRange(Val(ExplicitHeight))
        THEN /\ error # "DimensionOutOfRange"
             /\ IsSome(viewport) =>
                    Val(viewport) = [width |-> ExplicitWidth, height |-> ExplicitHeight]
        ELSE /\ browser = "none"
             /\ pc # "done"
             /\ pc = "failed" => error \in {"DimensionOutOfRange"} \cup OtherEarlyFailures

\* C6: a command line that gives exactly one of width and height, whatever the
\* number, fails with IncompleteDimensionPair and reaches neither viewport
\* resolution nor rendering; one that gives both or neither is not rejected by
\* this check.  (Stated for the command-line entries; a direct toPng call makes
\* no such check at all.)
C6_IncompleteDimensionPair ==
    req.entry \in {"cli", "snap"} =>
        IF IsSome(ExplicitWidth) # IsSome(ExplicitHeight)
        THEN /\ viewport = Undef
             /\ browser = "none"
             /\ pc \notin {"import", "snapDrive", "done"}
             /\ pc = "failed" => error \in {"IncompleteDimensionPair"} \cup EarlierErrors
        ELSE error # "IncompleteDimensionPair"

C8_WrittenOnce ==
    /\ writes.png <= 1
    /\ writes.html <= 1
    /\ writes.meta <= 1
    /\ (req.entry # "snap" /\ pc = "done") => (writes.png = 1 /\ writes.meta = 1)

AfterScripts == {"fonts", "capture", "close", "finish", "done"}

\* C9 as stated: after navigation the script-removal step runs if and only if
\* scripts are disallowed and the source is not a live URL.
C9_ScriptRemovalSparesUrls ==
    (navDone /\ pc \in AfterScripts) =>
        (scriptRemovalRan <=> (~req.allowScripts /\ ~IsHttpUrl(Val(htmlOrUrl))))

\* C9, amended: after navigation the script-removal step runs if and only if
\* scripts are disallowed, for every kind of source, a live URL included; it never
\* runs when scripts are allowed, and never before navigation has completed.
C9_ScriptRemovalIffDisallowed ==
    /\ (navDone /\ pc \in AfterScripts) => (scriptRemovalRan <=> ~req.allowScripts)
    /\ scriptRemovalRan => (navDone /\ ~req.allowScripts)

C9_Witness ==
    /\ pc = "done"
    /\ scriptRemovalRan
    /\ navigated = "goto"
    /\ IsHttpUrl(Val(htmlOrUrl))

DriverOrder == <<"Launching", "Navigating", "ContentReady", "Capturing", "Closed">>

\* C10: an invocation goes through Launching, Navigating, ContentReady, Capturing,
\* Closed in that order, with at most one navigation attempt; a navigation failure
\* or timeout is not retried and is terminal, with no capture and no sidecar; no
\* capture is taken before navigation has completed.
C10_Lifecycle ==
    /\ navAttempts <= 1
    /\ \E k \in 0..Len(DriverOrder) :
          \/ lifecycle = SubSeq(DriverOrder, 1, k)
          \/ lifecycle = Append(SubSeq(DriverOrder, 1, k), "Failed")
    /\ error \in {"NavigationTimeout", "NavigationFailed"} =>
          /\ pc = "failed"
          /\ captures = <<>>
          /\ writes.png = 0
          /\ writes.meta = 0
          /\ meta = Undef
    /\ pc = "failed" => (writes.meta = 0 /\ lifecycle[Len(lifecycle)] = "Failed")
    /\ captures # <<>> => navDone

C10_Witness ==
    /\ req.entry # "snap"
    /\ pc = "failed"
    /\ error = "NavigationTimeout"
    /\ navAttempts = 1
    /\ lifecycle = <<"Launching", "Navigating", "Failed">>

====
